---- MODULE Spec2Model ----
(***************************************************************************)
(* Model of recipe_selector.py: the catalog loader (load_recipes), the     *)
(* filter (filter_recipes) and one Streamlit session of main(), where      *)
(* every user interaction reruns the whole script.                         *)
(*                                                                         *)
(* Python values: a string is a sequence of one-character strings, so      *)
(* that str.lower() and == are computed character by character; an         *)
(* Optional value is None (the empty tuple) or Some(v) (a one-tuple).      *)
(***************************************************************************)
EXTENDS Integers, Sequences, FiniteSets, TLC

VARIABLES
    file,            \* what recipes.json is for this session
    cost_filter,     \* value of the "Budget Level" selectbox (a label)
    cuisine_filter,  \* value of the "Cuisine Type" selectbox (a string)
    time_filter,     \* value of the slider, None until it has been rendered
    button,          \* st.button(...) of the current run
    load,            \* outcome of load_recipes in the current run
    recipes,         \* main: recipes / filter_recipes: its first argument
    cost,            \* main: selected_cost / filter_recipes: cost
    cuisine,         \* main: selected_cuisine / filter_recipes: cuisine
    max_time,        \* filter_recipes: max_time
    filtered,        \* main: filtered_recipes / filter_recipes: its result
    errors,          \* the st.error messages of the current run
    count,           \* the "Matching Recipes" number shown, None if not shown
    displayed,       \* the recipe handed to display_recipe, None if none
    raised,          \* the exception that ended the run, "none" if none
    rendered,        \* the widgets the current run has put on the page
    pc               \* "start" before the first run, "done" after a run

vars == <<file, cost_filter, cuisine_filter, time_filter, button, load,
          recipes, cost, cuisine, max_time, filtered, errors, count,
          displayed, raised, rendered, pc>>

-----------------------------------------------------------------------------
(* Bounds of the model *)

MaxRecipes == 2

MaxTime == 2

-----------------------------------------------------------------------------
(* Python values *)

None == <<>>

Some(v) == <<v>>

Range(s) == {s[i] : i \in 1..Len(s)}

SeqsUpTo(S, n) == UNION {[1..k -> S] : k \in 0..n}

\* str.lower() on one character of the alphabet used by the model
LowerChar(c) ==
    CASE c = "A" -> "a"
      [] c = "B" -> "b"
      [] OTHER -> c

\* str.lower(): every character lowered, length kept
lower(s) == [i \in 1..Len(s) |-> LowerChar(s[i])]

\* `if x:` for an Optional[str]: None and "" are false
TruthyStr(x) == x # None /\ Len(x[1]) > 0

\* `if x:` for an Optional[int]: None and 0 are false
TruthyInt(x) == x # None /\ x[1] # 0

-----------------------------------------------------------------------------
(* The recipes of the model *)

Budget == <<"$">>

Moderate == <<"$", "$">>

Luxury == <<"$", "$", "$">>

CostTiers == {Budget, Moderate, Luxury}

\* cuisines of the recipes given to filter_recipes: two spellings of one
\* name and a name the first is a prefix of
ArgCuisines == {<<"a">>, <<"A">>, <<"a", "b">>}

\* cuisine arguments given to filter_recipes (the empty string included)
AskCuisines == ArgCuisines \cup {<<>>, <<"A", "B">>}

Recipe(co, cu, t) == [cost |-> co, cuisine |-> cu, cooking_time |-> t]

ArgRecipes == {Recipe(co, cu, t) : co \in CostTiers, cu \in ArgCuisines, t \in 1..MaxTime}

-----------------------------------------------------------------------------
(* Vocabulary of the properties *)

\* number of occurrences of r in the list s
Occ(s, r) == Cardinality({i \in 1..Len(s) : s[i] = r})

\* the same letter, whatever the case
SameLetter(c, d) == c = d \/ {c, d} = {"a", "A"} \/ {c, d} = {"b", "B"}

\* equal strings when letter case is ignored
EqIgnoreCase(s, t) ==
    Len(s) = Len(t) /\ \A i \in 1..Len(s) : SameLetter(s[i], t[i])

IsPrefix(p, s) == Len(p) <= Len(s) /\ SubSeq(s, 1, Len(p)) = p

RECURSIVE IsSubseq(_, _)
\* s is t with some elements left out
IsSubseq(s, t) ==
    IF s = <<>> THEN TRUE
    ELSE IF t = <<>> THEN FALSE
    ELSE IF Head(s) = Head(t) THEN IsSubseq(Tail(s), Tail(t))
    ELSE IsSubseq(s, Tail(t))

Reverse(s) == [i \in 1..Len(s) |-> s[Len(s) + 1 - i]]

-----------------------------------------------------------------------------
(* filter_recipes *)

\* the cost test written as a substring test (`cost in r["cost"]`)
CostFilterSubstring(rs, co) ==
    IF TruthyStr(co) THEN SelectSeq(rs, LAMBDA r : IsPrefix(co[1], r.cost)) ELSE rs

\* [r for r in filtered if r["cost"] == cost], guarded by `if cost:`
CostFilter(rs, co) ==
    IF TruthyStr(co) THEN SelectSeq(rs, LAMBDA r : r.cost = co[1]) ELSE rs

\* [r for r in filtered if r["cuisine"].lower() == cuisine.lower()],
\* guarded by `if cuisine:`
CuisineFilter(rs, cu) ==
    IF TruthyStr(cu)
    THEN SelectSeq(rs, LAMBDA r : lower(r.cuisine) = lower(cu[1]))
    ELSE rs

\* the time filter building its result back to front
TimeFilterReversed(rs, mt) ==
    IF TruthyInt(mt)
    THEN Reverse(SelectSeq(rs, LAMBDA r : r.cooking_time <= mt[1]))
    ELSE rs

\* [r for r in filtered if r["cooking_time"] <= max_time], guarded by
\* `if max_time:`
TimeFilter(rs, mt) ==
    IF TruthyInt(mt) THEN SelectSeq(rs, LAMBDA r : r.cooking_time <= mt[1]) ELSE rs

\* the three `if` written as if / elif / elif: the first criterion wins
filter_recipes_elif(rs, co, cu, mt) ==
    IF TruthyStr(co) THEN CostFilter(rs, co)
    ELSE IF TruthyStr(cu) THEN CuisineFilter(rs, cu)
    ELSE TimeFilter(rs, mt)

filter_recipes(rs, co, cu, mt) == TimeFilter(CuisineFilter(CostFilter(rs, co), cu), mt)

-----------------------------------------------------------------------------
(* load_recipes *)

\* recipes.json: absent, not JSON, a JSON object without the key "recipes",
\* JSON that is no object (a list, a number), or {"recipes": [...]}
BadKinds == {"absent", "not_json", "no_key", "not_object"}

NotCalled == [ret |-> <<>>, error |-> "none", raised |-> "none"]

\* ret is what the call returns, error the st.error it shows, raised the
\* exception that leaves it (there is no return value then)
load_recipes(f) ==
    CASE f.kind = "absent" ->
            [ret |-> <<>>, error |-> "not_found", raised |-> "none"]
      [] f.kind = "not_json" ->
            [ret |-> <<>>, error |-> "decode", raised |-> "none"]
      [] f.kind = "no_key" ->
            [ret |-> <<>>, error |-> "none", raised |-> "KeyError"]
      [] f.kind = "not_object" ->
            [ret |-> <<>>, error |-> "none", raised |-> "TypeError"]
      [] OTHER ->
            [ret |-> f.recipes, error |-> "none", raised |-> "none"]

-----------------------------------------------------------------------------
(* main: one run of the script *)

SliderMin == 15

SliderStep == 15

CostLabels == {"Any", "Budget", "Moderate", "Luxury"}

\* cost_options[cost_filter]
cost_options(label) ==
    CASE label = "Budget" -> Some(Budget)
      [] label = "Moderate" -> Some(Moderate)
      [] label = "Luxury" -> Some(Luxury)
      [] OTHER -> None

AnyCuisine == <<"A", "n", "y">>

\* options of the cuisine selectbox: "Any" and the cuisines of the catalog
cuisine_options(rs) == {AnyCuisine} \cup {rs[i].cuisine : i \in 1..Len(rs)}

\* max(r["cooking_time"] for r in recipes), for a non-empty list
max_possible_time(rs) ==
    CHOOSE m \in {rs[i].cooking_time : i \in 1..Len(rs)} :
        \A i \in 1..Len(rs) : rs[i].cooking_time <= m

\* the values the slider can take: min_value, then steps of 15 up to
\* max_value, and max_value itself (the initial value)
slider_values(mpt) ==
    {v \in SliderMin..mpt : (v - SliderMin) % SliderStep = 0} \cup {mpt}

\* random.choice always taking the first element
random_choice_first(s) == {s[1]}

\* random.choice(s): the possible results
random_choice(s) == Range(s)

\* the button's branch without the `if not filtered_recipes` test:
\* random.choice of an empty list raises IndexError
surprise_me_unguarded(flt) ==
    IF flt = <<>>
    THEN {[error |-> "none", displayed |-> None, raised |-> "IndexError"]}
    ELSE {[error |-> "none", displayed |-> Some(r), raised |-> "none"] :
            r \in random_choice(flt)}

\* the body of `if st.button(...)`: the possible outcomes
surprise_me(flt) ==
    IF flt = <<>>
    THEN {[error |-> "no_match", displayed |-> None, raised |-> "none"]}
    ELSE {[error |-> "none", displayed |-> Some(r), raised |-> "none"] :
            r \in random_choice(flt)}

\* One run of main() with the widgets at cf, cuf, tf (None: the slider has
\* not been shown yet and takes its initial value) and the button at btn.
main(cf, cuf, tf, btn) ==
    LET selected_cost == cost_options(cf)
        ld == load_recipes(file)
        selected_cuisine == IF cuf = AnyCuisine THEN None ELSE Some(cuf)
        errs == IF ld.error = "none" THEN {} ELSE {ld.error}
    IN  /\ pc' = "done"
        /\ cost_filter' = cf
        /\ cuisine_filter' = cuf
        /\ button' = btn
        /\ load' = ld
        /\ cost' = selected_cost
        /\ UNCHANGED file
        /\ IF ld.raised # "none"
           THEN \* line 191 raises: only the cost selectbox is on the page
                /\ raised' = ld.raised
                /\ rendered' = {"cost"}
                /\ recipes' = <<>>
                /\ cuisine' = None
                /\ time_filter' = tf
                /\ max_time' = None
                /\ filtered' = <<>>
                /\ errors' = errs
                /\ count' = None
                /\ displayed' = None
           ELSE IF ld.ret = <<>>
           THEN \* line 203: max() of an empty sequence raises ValueError
                /\ raised' = "ValueError"
                /\ rendered' = {"cost", "cuisine"}
                /\ recipes' = ld.ret
                /\ cuisine' = selected_cuisine
                /\ time_filter' = tf
                /\ max_time' = None
                /\ filtered' = <<>>
                /\ errors' = errs
                /\ count' = None
                /\ displayed' = None
           ELSE LET t == IF tf = None THEN max_possible_time(ld.ret) ELSE tf[1]
                    flt == filter_recipes(ld.ret, selected_cost, selected_cuisine, Some(t))
                IN  /\ recipes' = ld.ret
                    /\ cuisine' = selected_cuisine
                    /\ time_filter' = Some(t)
                    /\ max_time' = Some(t)
                    /\ filtered' = flt
                    /\ count' = Some(Len(flt))
                    /\ rendered' = {"cost", "cuisine", "time", "button"}
                    /\ IF btn
                       THEN \E o \in surprise_me(flt) :
                                /\ errors' = errs \cup ({o.error} \ {"none"})
                                /\ displayed' = o.displayed
                                /\ raised' = o.raised
                       ELSE /\ errors' = errs
                            /\ displayed' = None
                            /\ raised' = "none"

-----------------------------------------------------------------------------
(* Spec: one session. Every interaction reruns main() *)

\* cuisines of the catalogs: two spellings of one name and the empty string
CatalogCuisines == {<<>>, <<"a">>, <<"A">>}

\* cooking times of the catalogs: the first two positions of the slider
CatalogTimes == {SliderMin, SliderMin + SliderStep}

CatalogRecipes ==
    {Recipe(co, cu, t) : co \in CostTiers, cu \in CatalogCuisines, t \in CatalogTimes}

Files ==
    {[kind |-> k, recipes |-> <<>>] : k \in BadKinds}
        \cup {[kind |-> "ok", recipes |-> rs] : rs \in SeqsUpTo(CatalogRecipes, MaxRecipes)}

Init ==
    /\ file \in Files
    /\ cost_filter = "Any"
    /\ cuisine_filter = AnyCuisine
    /\ time_filter = None
    /\ button = FALSE
    /\ load = NotCalled
    /\ recipes = <<>>
    /\ cost = None
    /\ cuisine = None
    /\ max_time = None
    /\ filtered = <<>>
    /\ errors = {}
    /\ count = None
    /\ displayed = None
    /\ raised = "none"
    /\ rendered = {}
    /\ pc = "start"

\* the page is opened
FirstRun ==
    /\ pc = "start"
    /\ main("Any", AnyCuisine, None, FALSE)

ChangeCost ==
    /\ pc = "done"
    /\ "cost" \in rendered
    /\ \E l \in CostLabels \ {cost_filter} :
          main(l, cuisine_filter, time_filter, FALSE)

ChangeCuisine ==
    /\ pc = "done"
    /\ "cuisine" \in rendered
    /\ \E c \in cuisine_options(recipes) \ {cuisine_filter} :
          main(cost_filter, c, time_filter, FALSE)

ChangeTime ==
    /\ pc = "done"
    /\ "time" \in rendered
    /\ \E t \in slider_values(max_possible_time(recipes)) \ {time_filter[1]} :
          main(cost_filter, cuisine_filter, Some(t), FALSE)

PressButton ==
    /\ pc = "done"
    /\ "button" \in rendered
    /\ main(cost_filter, cuisine_filter, time_filter, TRUE)

Next == FirstRun \/ ChangeCost \/ ChangeCuisine \/ ChangeTime \/ PressButton

Spec == Init /\ [][Next]_vars

-----------------------------------------------------------------------------
(* FilterSpec: filter_recipes applied to every argument list of the bounds *)

Idle ==
    /\ file = [kind |-> "absent", recipes |-> <<>>]
    /\ cost_filter = "Any"
    /\ cuisine_filter = AnyCuisine
    /\ time_filter = None
    /\ button = FALSE
    /\ load = NotCalled
    /\ errors = {}
    /\ count = None
    /\ displayed = None
    /\ raised = "none"
    /\ rendered = {}

FilterInit ==
    /\ Idle
    /\ recipes \in SeqsUpTo(ArgRecipes, MaxRecipes)
    /\ cost \in {None} \cup {Some(c) : c \in CostTiers \cup {<<>>}}
    /\ cuisine \in {None} \cup {Some(c) : c \in AskCuisines}
    /\ max_time \in {None} \cup {Some(t) : t \in 0..MaxTime}
    /\ filtered = <<>>
    /\ pc = "start"

CallFilter ==
    /\ pc = "start"
    /\ filtered' = filter_recipes(recipes, cost, cuisine, max_time)
    /\ pc' = "done"
    /\ UNCHANGED <<file, cost_filter, cuisine_filter, time_filter, button, load,
                   recipes, cost, cuisine, max_time, errors, count, displayed,
                   raised, rendered>>

FilterNext == CallFilter

FilterSpec == FilterInit /\ [][FilterNext]_vars

-----------------------------------------------------------------------------
(* Properties of filter_recipes, checked under FilterSpec *)

\* C1: with only max_time supplied, every recipe of the result has
\* cooking_time <= max_time and every input recipe with
\* cooking_time <= max_time is in the result, for every max_time.
C1_MaxTimeInclusive ==
    (pc = "done" /\ cost = None /\ cuisine = None /\ max_time # None) =>
        /\ \A r \in Range(filtered) : r.cooking_time <= max_time[1]
        /\ \A i \in 1..Len(recipes) :
              recipes[i].cooking_time <= max_time[1] => recipes[i] \in Range(filtered)

\* C5: with only a cost tier supplied, the result holds exactly the input
\* recipes of that tier (each as often as in the input) and no other.
C5_CostExact ==
    (pc = "done" /\ cost # None /\ cuisine = None /\ max_time = None) =>
        (cost[1] \in CostTiers =>
            \A r \in Range(recipes) \cup Range(filtered) :
                Occ(filtered, r) = IF r.cost = cost[1] THEN Occ(recipes, r) ELSE 0)

C5_Witness ==
    /\ pc = "done" /\ cost = Some(Moderate) /\ cuisine = None /\ max_time = None
    /\ Len(recipes) = 2 /\ Len(filtered) = 1
    /\ \E i \in 1..2 : recipes[i].cost = Luxury

\* C6: with only a cuisine string supplied, the result holds exactly the
\* input recipes whose cuisine equals it when letter case is ignored, for
\* every cuisine string; a prefix or a containing string does not match.
C6_CuisineExactIgnoreCase ==
    (pc = "done" /\ cost = None /\ max_time = None /\ cuisine # None) =>
        \A r \in Range(recipes) \cup Range(filtered) :
            Occ(filtered, r) =
                IF EqIgnoreCase(r.cuisine, cuisine[1]) THEN Occ(recipes, r) ELSE 0

\* the result when only one criterion is supplied
OnlyCost == filter_recipes(recipes, cost, None, None)

OnlyCuisine == filter_recipes(recipes, None, cuisine, None)

OnlyTime == filter_recipes(recipes, None, None, max_time)

\* C4: with all three criteria supplied, the result is exactly the input
\* recipes that are in each of the three single-criterion results.
C4_Intersection ==
    (pc = "done" /\ cost # None /\ cuisine # None /\ max_time # None) =>
        filtered = SelectSeq(recipes, LAMBDA r :
                       /\ r \in Range(OnlyCost)
                       /\ r \in Range(OnlyCuisine)
                       /\ r \in Range(OnlyTime))

C4_Witness ==
    /\ pc = "done" /\ TruthyStr(cost) /\ TruthyStr(cuisine) /\ TruthyInt(max_time)
    /\ Len(recipes) = 2 /\ Len(filtered) = 1
    /\ Len(OnlyCost) = 1 /\ Len(OnlyCuisine) = 2 /\ Len(OnlyTime) = 2

\* C7: with no criterion the result is the input, same recipes in the same
\* order; with any criteria it is a subsequence of the input.
C7_OrderPreserved ==
    pc = "done" =>
        /\ (cost = None /\ cuisine = None /\ max_time = None) => filtered = recipes
        /\ IsSubseq(filtered, recipes)

C7_Witness ==
    /\ pc = "done" /\ TruthyInt(max_time)
    /\ Len(filtered) = 2 /\ filtered[1] # filtered[2]
    /\ filtered = recipes

-----------------------------------------------------------------------------
(* Properties of load_recipes and of main, checked under Spec *)

\* C2: when recipes.json is missing or malformed (absent, not JSON, or JSON
\* without the list of recipes), load_recipes shows an error, returns the
\* empty list and raises nothing to its caller.
C2_LoadFailureGivesEmpty ==
    (pc = "done" /\ file.kind \in BadKinds) =>
        /\ load.raised = "none"
        /\ load.error # "none"
        /\ load.ret = <<>>

\* C3: when the load has failed and the empty catalog is used, the run of
\* main ends without an exception, shows a match count of 0, and a pressed
\* button shows the "no recipes match" message.
C3_DegradesGracefully ==
    (pc = "done" /\ load.error # "none") =>
        /\ raised = "none"
        /\ count = Some(0)
        /\ button => "no_match" \in errors

\* C8: a random pick on a non-empty filtered subset displays an element of
\* that subset, and every element of the subset is a possible outcome.
C8_PickFromSubset ==
    /\ (pc = "done" /\ button /\ filtered # <<>>) =>
            displayed # None /\ displayed[1] \in Range(filtered)
    /\ (pc = "done" /\ "button" \in rendered) =>
            \A i \in 1..Len(filtered) :
                ENABLED (PressButton /\ displayed' = Some(filtered[i]))

C8_Witness ==
    /\ pc = "done" /\ button /\ cost # None
    /\ Len(recipes) = 2 /\ Len(filtered) = 2 /\ filtered[1] # filtered[2]
    /\ displayed = Some(filtered[2])

\* C9: a random pick on an empty filtered subset shows the error message,
\* displays no recipe and raises nothing.
C9_EmptyPickSignalsError ==
    (pc = "done" /\ button /\ filtered = <<>>) =>
        /\ "no_match" \in errors
        /\ displayed = None
        /\ raised = "none"

C9_Witness ==
    /\ pc = "done" /\ button /\ filtered = <<>> /\ recipes # <<>>
    /\ errors = {"no_match"} /\ displayed = None /\ count = Some(0)

\* r satisfies the selections the three widgets show
Selected(r) ==
    /\ cost_filter # "Any" => r.cost = cost_options(cost_filter)[1]
    /\ cuisine_filter # AnyCuisine => EqIgnoreCase(r.cuisine, cuisine_filter)
    /\ time_filter # None => r.cooking_time <= time_filter[1]

\* C10: a recipe is displayed only in a run where the button was pressed,
\* it satisfies every filter selected in that run, and the match count
\* shown is the number of recipes that satisfy the current selections.
C10_DisplayMatchesSelections ==
    pc = "done" =>
        /\ displayed # None => button /\ Selected(displayed[1])
        /\ count # None =>
              count[1] = Cardinality({i \in 1..Len(recipes) : Selected(recipes[i])})

====
